---------------------------- MODULE Spec2Model ----------------------------
(***************************************************************************)
(* aurora: `install` (src/src/commands/install.rs).  A batch of packages   *)
(* is installed one after another; each package is cloned into             *)
(* /tmp/aurora/builds/<package>, its build system is detected (aurora.json *)
(* or marker files), the user is asked, the build system's commands are    *)
(* run, the binary is located and copied to $HOME/.local/bin.              *)
(*                                                                         *)
(* External commands return "ok" (exit status 0), "fail" (any other exit   *)
(* status) or "err" (Command::status returned Err: the program could not   *)
(* be started).  A panic (expect, unwrap, unreachable!) ends the process.  *)
(***************************************************************************)
EXTENDS Integers, Sequences, FiniteSets, TLC

\* ------------------------------------------------------------------ bounds
MaxBatch == 2
MaxFlags == 2

\* ------------------------------------------------------------ option values
None == <<>>
Some(x) == <<x>>
IsSome(o) == o # <<>>
Unwrap(o) == o[1]

\* ------------------------------------------------------------- JSON values
\* serde_json::Value, as far as parse_aurora_json looks at it.
JNull == [t |-> "null", s |-> "", a |-> <<>>]
JNum == [t |-> "num", s |-> "", a |-> <<>>]
JStr(x) == [t |-> "str", s |-> x, a |-> <<>>]
JArr(xs) == [t |-> "arr", s |-> "", a |-> xs]

\* Value::as_str
as_str(v) == IF v.t = "str" THEN Some(v.s) ELSE None

\* Value::as_array
as_array(v) == IF v.t = "arr" THEN Some(v.a) ELSE None

\* Option::unwrap_or
unwrap_or(o, d) == IF IsSome(o) THEN Unwrap(o) ELSE d

\* iter().filter_map(|v| v.as_str()).collect()
RECURSIVE filter_map_as_str(_)
filter_map_as_str(xs) ==
    IF xs = <<>> THEN <<>>
    ELSE (IF IsSome(as_str(Head(xs))) THEN <<Unwrap(as_str(Head(xs)))>> ELSE <<>>)
         \o filter_map_as_str(Tail(xs))

\* The aurora.json of a source tree: no such file, a file that cannot be
\* opened, a file that is not JSON, or a JSON document with the values of
\* json["build_system"] and json["flags"] (JNull when the key is missing).
NoJson == [state |-> "absent", build_system |-> JNull, flags |-> JNull]
UnreadableJson == [state |-> "unreadable", build_system |-> JNull, flags |-> JNull]
MalformedJson == [state |-> "malformed", build_system |-> JNull, flags |-> JNull]
JsonDoc(bs, fl) == [state |-> "json", build_system |-> bs, flags |-> fl]

\* parse_aurora_json: the panic it ends in, or "" when it returns.
ParsePanic(doc) ==
    CASE doc.state = "unreadable" -> "Failed to open aurora.json"
      [] doc.state = "malformed" -> "Invalid aurora.json"
      [] OTHER -> ""

\* parse_aurora_json: the pair it returns for a document that parses.
parse_aurora_json(doc) ==
    [build_system |-> unwrap_or(as_str(doc.build_system), "make"),
     flags |-> IF IsSome(as_array(doc.flags))
               THEN filter_map_as_str(Unwrap(as_array(doc.flags)))
               ELSE <<>>]

\* ------------------------------------------------------------ build systems
Kinds == <<"make", "autotools", "cargo", "cmake", "meson", "ninja", "nimble", "stack">>
KindSet == {Kinds[i] : i \in 1..Len(Kinds)}

makefiles == <<"Makefile", "makefile", "GNUMakefile">>

\* The names of the files at the root of a source tree that the program
\* tests for.  "*.nimble" is the file whose name is these eight characters;
\* "foo.nimble" is a Nimble package file.
MarkerFiles ==
    {"Makefile", "makefile", "GNUMakefile", "configure", "Cargo.toml",
     "CMakeLists.txt", "meson.build", "build.ninja", "*.nimble", "foo.nimble",
     "stack.yaml"}

\* Path::exists of build_dir.join(f)
Exists(dir, f) == dir.present /\ f \in dir.files

\* makefiles.iter().find(|f| build_dir.join(f).exists())
FindMakefile(dir) ==
    IF \E i \in 1..Len(makefiles) : Exists(dir, makefiles[i])
    THEN Some(makefiles[CHOOSE i \in 1..Len(makefiles) :
                   /\ Exists(dir, makefiles[i])
                   /\ \A j \in 1..(i - 1) : ~Exists(dir, makefiles[j])])
    ELSE None

has_makefile(dir) == \E i \in 1..Len(makefiles) : Exists(dir, makefiles[i])

NimbleExists(dir) == Exists(dir, "*.nimble")

\* The marker-file chain of install_with_build_system (no aurora.json).
DetectMarkers(dir) ==
    IF has_makefile(dir) THEN Some("make")
    ELSE IF Exists(dir, "configure") THEN Some("autotools")
    ELSE IF Exists(dir, "Cargo.toml") THEN Some("cargo")
    ELSE IF Exists(dir, "CMakeLists.txt") THEN Some("cmake")
    ELSE IF Exists(dir, "meson.build") THEN Some("meson")
    ELSE IF Exists(dir, "build.ninja") THEN Some("ninja")
    ELSE IF NimbleExists(dir) THEN Some("nimble")
    ELSE IF Exists(dir, "stack.yaml") THEN Some("stack")
    ELSE None

\* let build_file = match build_system.as_str() { ... }
BuildFile(dir, bs) ==
    CASE bs = "make" -> FindMakefile(dir)
      [] bs = "autotools" -> Some("configure")
      [] bs = "cargo" -> Some("Cargo.toml")
      [] bs = "cmake" -> Some("CMakeLists.txt")
      [] bs = "meson" -> Some("meson.build")
      [] bs = "ninja" -> Some("build.ninja")
      [] bs = "nimble" -> IF NimbleExists(dir) THEN Some("*.nimble") ELSE None
      [] bs = "stack" -> Some("stack.yaml")
      [] OTHER -> None

\* p.extension() == "nimble", over the file names of the model
HasNimbleExtension(f) == f \in {"*.nimble", "foo.nimble"}

\* ------------------------------------------------------------- Cargo.toml
\* The Cargo.toml of a source tree as get_cargo_binary_name reads it: a file
\* that cannot be read, text that is not TOML, or a table with the [[bin]]
\* entries (each the Some(name) of its string name, or None) and the
\* Some(name) of package.name, or None.
CargoUnreadable == [state |-> "unreadable", bin |-> <<>>, package |-> None]
CargoUnparseable == [state |-> "unparseable", bin |-> <<>>, package |-> None]
CargoTable(bins, pkg) == [state |-> "table", bin |-> bins, package |-> pkg]

RECURSIVE FirstSome(_)
FirstSome(os) ==
    IF os = <<>> THEN None
    ELSE IF IsSome(Head(os)) THEN Head(os) ELSE FirstSome(Tail(os))

\* get_cargo_binary_name with package.name tried before the [[bin]] entries
PackageNameFirst(dir) ==
    IF ~Exists(dir, "Cargo.toml") THEN None
    ELSE IF dir.cargo.state # "table" THEN None
    ELSE IF IsSome(dir.cargo.package) THEN dir.cargo.package
    ELSE FirstSome(dir.cargo.bin)

get_cargo_binary_name(dir) ==
    IF ~Exists(dir, "Cargo.toml") THEN None
    ELSE IF dir.cargo.state # "table" THEN None
    ELSE IF IsSome(FirstSome(dir.cargo.bin)) THEN FirstSome(dir.cargo.bin)
    ELSE dir.cargo.package

\* ------------------------------------------------------------ directories
\* /tmp/aurora/builds/<package>: whether it exists, the marker files at its
\* root, its aurora.json and Cargo.toml, and the files a build has written
\* (paths relative to the directory, as sequences of components).
AbsentDir ==
    [present |-> FALSE, files |-> {}, json |-> NoJson, cargo |-> CargoUnparseable,
     out |-> {}]
Tree(files, json, cargo) ==
    [present |-> TRUE, files |-> files, json |-> json, cargo |-> cargo, out |-> {}]

Last(p) == p[Len(p)]

\* find_executable_in_dir(build_dir.join(sub), name): the files it can return;
\* the order of read_dir is not specified, so any file of that name under
\* the directory can be the first one met.
find_executable_in_dir(dir, sub, name) ==
    LET hits == {p \in dir.out : Len(p) >= 2 /\ p[1] = sub /\ Last(p) = name}
    IN IF hits = {} THEN {None} ELSE {Some(p) : p \in hits}

PathIfExists(dir, p) == IF dir.present /\ p \in dir.out THEN Some(p) ELSE None

\* find_binary_path looking for the package's name anywhere in the directory
FindAnywhere(dir, repo, bs) ==
    IF {p \in dir.out : Last(p) = repo} = {} THEN {None}
    ELSE {Some(p) : p \in {q \in dir.out : Last(q) = repo}}

\* find_binary_path: the set of values it can return.
find_binary_path(dir, repo, bs) ==
    CASE bs = "cargo" ->
           LET binary_name == unwrap_or(get_cargo_binary_name(dir), repo)
           IN IF <<"target", "release", binary_name>> \in dir.out
              THEN {Some(<<"target", "release", binary_name>>)}
              ELSE {PathIfExists(dir, <<"target", "debug", binary_name>>)}
      [] bs \in {"make", "autotools", "ninja"} -> {PathIfExists(dir, <<repo>>)}
      [] bs = "cmake" -> {PathIfExists(dir, <<"build", repo>>)}
      [] bs = "meson" -> find_executable_in_dir(dir, "build", repo)
      [] bs = "nimble" -> {PathIfExists(dir, <<repo>>)}
      [] bs = "stack" ->
           IF \E p \in dir.out : Len(p) >= 2 /\ p[1] = "bin"
           THEN find_executable_in_dir(dir, "bin", repo)
           ELSE {None}
      [] OTHER -> {None}

\* ------------------------------------------------------------- user input
\* A line read from stdin, as a sequence of characters.
IsWhitespace(c) == c \in {" ", "\n", "\t", "\r"}

RECURSIVE TrimStart(_)
TrimStart(s) ==
    IF s # <<>> /\ IsWhitespace(Head(s)) THEN TrimStart(Tail(s)) ELSE s

RECURSIVE TrimEnd(_)
TrimEnd(s) ==
    IF s # <<>> /\ IsWhitespace(s[Len(s)]) THEN TrimEnd(SubSeq(s, 1, Len(s) - 1)) ELSE s

\* str::trim
Trim(s) == TrimEnd(TrimStart(s))

\* u8::to_ascii_lowercase, over the characters of the model
ToAsciiLowercase(c) ==
    CASE c = "N" -> "n" [] c = "Y" -> "y" [] c = "O" -> "o" [] OTHER -> c

\* str::eq_ignore_ascii_case
eq_ignore_ascii_case(s, t) ==
    /\ Len(s) = Len(t)
    /\ \A i \in 1..Len(s) : ToAsciiLowercase(s[i]) = ToAsciiLowercase(t[i])

\* Declined comparing the trimmed line with "n" exactly
DeclinedCaseSensitive(line) == Trim(line) = <<"n">>

\* input.trim().eq_ignore_ascii_case("n")
Declined(line) == eq_ignore_ascii_case(Trim(line), <<"n">>)

\* ------------------------------------------------------------------ state
VARIABLES
    packages,      \* install: the packages of the batch
    flags,         \* install: the caller's flags
    yes,           \* install: the --yes switch
    arch,          \* whether /etc/arch-release exists
    remote,        \* the source tree the remote serves for each package of the batch
    idx,           \* the number of packages whose install_single has been called
    pc,            \* the place of the running install_single, "install" between two
    ws,            \* /tmp/aurora/builds: the directory of each package
    build_system,  \* install_with_build_system: build_system
    final_flags,   \* install_with_build_system: final_flags
    build_file,    \* install_with_build_system: build_file
    prompted,      \* whether "Proceed with build?" was printed in this run
    input,         \* the line read from stdin at the prompt, until it is answered
    pager,         \* the pager commands of this run
    cmds,          \* the build commands of this run, in order, with their results
    build_status,  \* install_with_build_system: build_status ("" before it is set)
    bin_path,      \* install_with_build_system: bin_path
    outcome,       \* what the last install_single reported ("" while it runs)
    panic,         \* the message of the panic that ended the process, or ""
    plans,         \* the (build_system, final_flags) of each run that chose them
    localbin       \* $HOME/.local/bin: its files, each with the run and path it was copied from

inputs == <<packages, flags, yes, arch, remote>>
locals == <<build_system, final_flags, build_file, prompted, input, pager, cmds,
            build_status, bin_path>>
vars == <<inputs, idx, pc, ws, locals, outcome, panic, plans, localbin>>

Packages == {"foo", "bar"}

\* Command::status: exit status 0, another exit status, or Err
Res == {"ok", "fail", "err"}

package == packages[idx]
build_dir == ws[package]

Cmd(prog, args, cwd, res) == [prog |-> prog, args |-> args, cwd |-> cwd, res |-> res]

\* `return` from install_single after printing the report
Return(report) ==
    /\ outcome' = report
    /\ pc' = "install"
    /\ panic' = panic

\* a panic: the process ends
Panic(msg) ==
    /\ pc' = "panicked"
    /\ panic' = msg
    /\ outcome' = outcome

Goto(place) ==
    /\ pc' = place
    /\ UNCHANGED <<outcome, panic>>

\* The files a build command can leave in the build directory of package p.
OutPaths(p) ==
    {<<p>>, <<"build", p>>, <<"build", "sub", p>>, <<"bin", p>>,
     <<"target", "release", p>>, <<"target", "debug", p>>,
     <<"target", "release", "foo-cli">>}
\* The names Cargo.toml declares: the [[bin]] names and package.name.
DeclaredNames(c) ==
    {Unwrap(o) : o \in {x \in {c.bin[i] : i \in DOMAIN c.bin} \cup {c.package} : IsSome(x)}}
\* The files cargo can leave for the names Cargo.toml declares.
CargoPaths(c) ==
    {<<"target", "release", n>> : n \in DeclaredNames(c)}
    \cup {<<"target", "debug", n>> : n \in DeclaredNames(c)}
\* nothing, one file, two files of the package's name under build/, or a
\* release and a debug binary of one name
Outs(p) ==
    {{}} \cup {{o} : o \in OutPaths(p) \cup CargoPaths(remote[p].cargo)}
    \cup {{<<"build", p>>, <<"build", "sub", p>>}}
    \cup {{<<"target", "release", n>>, <<"target", "debug", n>>} :
            n \in {p} \cup DeclaredNames(remote[p].cargo)}

\* ---------------------------------------------------------------- actions
\* the purge leaving the directory of an earlier run in place
LeaveDir(dir) == dir

\* if build_dir.exists() { fs::remove_dir_all(&build_dir) }: the directory after it
remove_dir_all(dir) == AbsentDir

\* install_with_build_system up to the clone: install's loop takes the next
\* package, install_single finds no /etc/arch-release, the scratch
\* directories are made and the package's build directory is removed.
Begin ==
    /\ pc = "install" /\ idx < Len(packages) /\ ~arch
    /\ idx' = idx + 1
    /\ build_system' = "" /\ final_flags' = <<>> /\ build_file' = None
    /\ prompted' = FALSE /\ input' = <<>> /\ pager' = <<>> /\ cmds' = <<>>
    /\ build_status' = "" /\ bin_path' = None
    /\ \E rm \in {"ok", "err"} :
         IF ws[packages[idx + 1]].present /\ rm = "err"
         THEN /\ pc' = "panicked"
              /\ panic' = "Failed to clean previous build"
              /\ ws' = ws
         ELSE /\ pc' = "clone"
              /\ panic' = panic
              /\ ws' = [ws EXCEPT ![packages[idx + 1]] = remove_dir_all(@)]
    /\ outcome' = ""
    /\ UNCHANGED <<inputs, plans, localbin>>

\* git clone --depth=1 https://aur.archlinux.org/<package>.git <build_dir>
Clone ==
    /\ pc = "clone"
    /\ \E r \in Res :
         CASE r = "ok" -> /\ ws' = [ws EXCEPT ![package] = remote[package]]
                          /\ Goto("detect")
           [] r = "fail" -> /\ ws' = ws
                            /\ Return("CloneFailed")
           [] r = "err" -> /\ ws' = ws
                           /\ Panic("Git command failed")
    /\ UNCHANGED <<inputs, plans, idx, locals, localbin>>

\* BuildSystemAndFlags with the marker files consulted before aurora.json
MarkersBeforeManifest(dir) ==
    IF IsSome(DetectMarkers(dir))
    THEN [is |-> "found", msg |-> "",
          build_system |-> Unwrap(DetectMarkers(dir)), custom_flags |-> <<>>]
    ELSE IF dir.json.state = "absent"
    THEN [is |-> "none", msg |-> "", build_system |-> "", custom_flags |-> <<>>]
    ELSE IF ParsePanic(dir.json) # ""
    THEN [is |-> "panic", msg |-> ParsePanic(dir.json),
          build_system |-> "", custom_flags |-> <<>>]
    ELSE [is |-> "found", msg |-> "",
          build_system |-> parse_aurora_json(dir.json).build_system,
          custom_flags |-> parse_aurora_json(dir.json).flags]

\* BuildSystemAndFlags with an aurora.json that is not JSON passed over
IgnoreMalformedManifest(dir) ==
    IF dir.json.state \in {"absent", "malformed"}
    THEN IF IsSome(DetectMarkers(dir))
         THEN [is |-> "found", msg |-> "",
               build_system |-> Unwrap(DetectMarkers(dir)), custom_flags |-> <<>>]
         ELSE [is |-> "none", msg |-> "", build_system |-> "", custom_flags |-> <<>>]
    ELSE IF ParsePanic(dir.json) # ""
    THEN [is |-> "panic", msg |-> ParsePanic(dir.json),
          build_system |-> "", custom_flags |-> <<>>]
    ELSE [is |-> "found", msg |-> "",
          build_system |-> parse_aurora_json(dir.json).build_system,
          custom_flags |-> parse_aurora_json(dir.json).flags]

\* BuildSystemAndFlags with the marker files used when aurora.json names no
\* build system
ManifestWithoutKindUsesMarkers(dir) ==
    IF dir.json.state = "absent"
       \/ (dir.json.state = "json" /\ ~IsSome(as_str(dir.json.build_system)))
    THEN IF IsSome(DetectMarkers(dir))
         THEN [is |-> "found", msg |-> "",
               build_system |-> Unwrap(DetectMarkers(dir)), custom_flags |-> <<>>]
         ELSE [is |-> "none", msg |-> "", build_system |-> "", custom_flags |-> <<>>]
    ELSE IF ParsePanic(dir.json) # ""
    THEN [is |-> "panic", msg |-> ParsePanic(dir.json),
          build_system |-> "", custom_flags |-> <<>>]
    ELSE [is |-> "found", msg |-> "",
          build_system |-> parse_aurora_json(dir.json).build_system,
          custom_flags |-> parse_aurora_json(dir.json).flags]

\* let (build_system, custom_flags) = if aurora_json_path.exists() { .. } else ..:
\* the panic of parse_aurora_json, the pair chosen, or nothing found.
BuildSystemAndFlags(dir) ==
    IF dir.json.state # "absent"
    THEN IF ParsePanic(dir.json) # ""
         THEN [is |-> "panic", msg |-> ParsePanic(dir.json),
               build_system |-> "", custom_flags |-> <<>>]
         ELSE [is |-> "found", msg |-> "",
               build_system |-> parse_aurora_json(dir.json).build_system,
               custom_flags |-> parse_aurora_json(dir.json).flags]
    ELSE IF IsSome(DetectMarkers(dir))
         THEN [is |-> "found", msg |-> "",
               build_system |-> Unwrap(DetectMarkers(dir)), custom_flags |-> <<>>]
         ELSE [is |-> "none", msg |-> "", build_system |-> "", custom_flags |-> <<>>]

\* FinalFlags with the caller's flags put first
CallerFlagsFirst(custom_flags, caller) == caller \o custom_flags

\* FinalFlags with the caller's flags given to the first package only
CallerFlagsForFirstPackageOnly(custom_flags, caller) ==
    IF idx = 1 THEN custom_flags \o caller ELSE custom_flags

\* let mut final_flags = custom_flags; final_flags.extend(flags.iter().cloned());
FinalFlags(custom_flags, caller) == custom_flags \o caller

\* "Searching for build file": aurora.json, else the marker files; then
\* final_flags.
Detect ==
    /\ pc = "detect"
    /\ LET d == BuildSystemAndFlags(build_dir)
       IN CASE d.is = "panic" ->
                 /\ Panic(d.msg)
                 /\ UNCHANGED <<build_system, final_flags, plans>>
            [] d.is = "none" ->
                 /\ Return("NoBuildSystemFound")
                 /\ UNCHANGED <<build_system, final_flags, plans>>
            [] d.is = "found" ->
                 /\ build_system' = d.build_system
                 /\ final_flags' = FinalFlags(d.custom_flags, flags)
                 /\ plans' = Append(plans, [run |-> idx,
                                            build_system |-> d.build_system,
                                            final_flags |-> FinalFlags(d.custom_flags, flags)])
                 /\ Goto("announce")
    /\ UNCHANGED <<inputs, idx, ws, build_file, prompted, input, pager, cmds,
                   build_status, bin_path, localbin>>

\* println!("~> Build system: {}", match ... _ => unreachable!()) and build_file
Announce ==
    /\ pc = "announce"
    /\ IF build_system \in KindSet
       THEN /\ build_file' = BuildFile(build_dir, build_system)
            /\ Goto("gate")
       ELSE /\ Panic("internal error: entered unreachable code")
            /\ build_file' = build_file
    /\ UNCHANGED <<inputs, plans, idx, ws, build_system, final_flags, prompted, input, pager,
                   cmds, build_status, bin_path, localbin>>

\* A line the user can type at the prompt (an empty line at end of input).
UserInputs ==
    {<<"n", "\n">>, <<"N", "\n">>, <<" ", "n", " ", "\n">>, <<"y", "\n">>,
     <<"n", "o", "\n">>, <<"\n">>, <<>>}

\* file_path of the gate: the values it can take (read_dir's order decides
\* which *.nimble file comes first).
GateFilePaths(dir, file) ==
    IF file = "*.nimble"
    THEN IF {f \in dir.files : HasNimbleExtension(f)} = {}
         THEN {None}
         ELSE {Some(f) : f \in {g \in dir.files : HasNimbleExtension(g)}}
    ELSE {Some(file)}

\* if !yes { ... less, cat, "Proceed with build? [Y/n]", read_line ... }
Gate ==
    /\ pc = "gate"
    /\ \E fp \in (IF IsSome(build_file)
                  THEN GateFilePaths(build_dir, Unwrap(build_file)) ELSE {None}) :
         IF ~yes /\ IsSome(build_file) /\ IsSome(fp) /\ Exists(build_dir, Unwrap(fp))
         THEN \E less \in Res, read \in {"line", "err"} :
                /\ prompted' = TRUE
                /\ pager' = IF less = "ok" THEN <<"less">> ELSE <<"less", "cat">>
                /\ IF read = "err"
                   THEN /\ Panic("called Result::unwrap() on an Err value")
                        /\ input' = <<>>
                   ELSE \E line \in UserInputs :
                          /\ input' = line
                          /\ Goto("asked")
         ELSE /\ UNCHANGED <<prompted, input, pager>>
              /\ Goto("build")
    /\ UNCHANGED <<inputs, plans, idx, ws, build_system, final_flags, build_file, cmds,
                   build_status, bin_path, localbin>>

\* if input.trim().eq_ignore_ascii_case("n") { "Build cancelled by user"; return }
Answer ==
    /\ pc = "asked"
    /\ IF Declined(input) THEN Return("Cancelled") ELSE Goto("build")
    /\ input' = <<>>
    /\ UNCHANGED <<inputs, plans, idx, ws, build_system, final_flags, build_file,
                   prompted, pager, cmds, build_status, bin_path, localbin>>

\* The argument lists of the build commands.
MakeArgs(dir, ff) == <<"-f", unwrap_or(FindMakefile(dir), "Makefile")>> \o ff
ConfigureArgs(ff) == ff
AutotoolsMakeWithFlags(ff) == ff
AutotoolsMakeArgs(ff) == <<>>
CMakeArgs(ff) == <<"-DCMAKE_BUILD_TYPE=Release">> \o ff \o <<"..">>
CMakeRetryKeepsBuildType(ff) == <<"-DCMAKE_BUILD_TYPE=Release">> \o ff \o <<"..">>
CMakeRetryArgs(ff) == ff \o <<"..">>
CargoArgs(ff) ==
    <<"build", "--release">> \o ff
      \o <<"--manifest-path", "<build_dir>/Cargo.toml", "--target-dir", "<build_dir>/target">>
MesonSetupArgs(ff) == <<"setup">> \o ff \o <<"<build_dir>/build">>
MesonFallbackArgs(ff) == <<"<build_dir>/build">>
MesonNinjaArgs(ff) == <<"-C", "<build_dir>/build">>
NinjaArgs(ff) == ff
NimbleArgs(ff) == <<"build">> \o ff
StackArgs(ff) == <<"install">> \o ff \o <<"--local-bin-path", "<build_dir>/bin">>

\* cmake_status.is_err() || !cmake_status.as_ref().unwrap().success()
CMakeNeedsRetry(r) == r # "ok"

\* meson_status.is_err() || !meson_status.as_ref().unwrap().success()
MesonNeedsFallback(r) == r # "ok"

\* A build command's result is recorded; the last command of a recipe sets
\* build_status and may have written files into the build directory.
Invoke(prog, args, cwd, r) == cmds' = Append(cmds, Cmd(prog, args, cwd, r))

LastCommand(r, msg) ==
    IF r = "err"
    THEN /\ Panic(msg)
         /\ UNCHANGED <<build_status, ws>>
    ELSE /\ build_status' = r
         /\ Goto("built")
         /\ \E o \in Outs(package) :
              ws' = [ws EXCEPT ![package].out = @ \cup o]

\* "make" => make -f <makefile> <final_flags>
RunMake ==
    /\ pc = "build" /\ build_system = "make"
    /\ \E r \in Res :
         /\ Invoke("make", MakeArgs(build_dir, final_flags), "<build_dir>", r)
         /\ LastCommand(r, "Make command failed")
    /\ UNCHANGED <<inputs, plans, idx, build_system, final_flags, build_file, prompted, input,
                   pager, bin_path, localbin>>

\* "autotools" => ./configure <final_flags>
RunConfigure ==
    /\ pc = "build" /\ build_system = "autotools"
    /\ \E r \in Res :
         /\ Invoke("./configure", ConfigureArgs(final_flags), "<build_dir>", r)
         /\ CASE r = "ok" -> Goto("autotools_make")
              [] r = "fail" -> Return("ConfigureFailed")
              [] r = "err" -> Panic("Configure command failed")
    /\ UNCHANGED <<inputs, plans, idx, ws, build_system, final_flags, build_file, prompted, input,
                   pager, build_status, bin_path, localbin>>

\* "autotools" => ... make
RunAutotoolsMake ==
    /\ pc = "autotools_make"
    /\ \E r \in Res :
         /\ Invoke("make", AutotoolsMakeArgs(final_flags), "<build_dir>", r)
         /\ LastCommand(r, "Make command failed")
    /\ UNCHANGED <<inputs, plans, idx, build_system, final_flags, build_file, prompted, input,
                   pager, bin_path, localbin>>

\* "cmake" => cmake -DCMAKE_BUILD_TYPE=Release <final_flags> .. in build/
RunCMake ==
    /\ pc = "build" /\ build_system = "cmake"
    /\ \E r \in Res :
         /\ Invoke("cmake", CMakeArgs(final_flags), "<build_dir>/build", r)
         /\ IF CMakeNeedsRetry(r)
            THEN /\ Goto("cmake_retry")
                 /\ UNCHANGED <<build_status, ws>>
            ELSE LastCommand(r, "")
    /\ UNCHANGED <<inputs, plans, idx, build_system, final_flags, build_file, prompted, input,
                   pager, bin_path, localbin>>

\* "cmake" => ... cmake <final_flags> .. when the first cmake did not succeed
RunCMakeRetry ==
    /\ pc = "cmake_retry"
    /\ \E r \in Res :
         /\ Invoke("cmake", CMakeRetryArgs(final_flags), "<build_dir>/build", r)
         /\ LastCommand(r, "CMake command failed")
    /\ UNCHANGED <<inputs, plans, idx, build_system, final_flags, build_file, prompted, input,
                   pager, bin_path, localbin>>

\* "cargo" => cargo build --release <final_flags> --manifest-path .. --target-dir ..
RunCargo ==
    /\ pc = "build" /\ build_system = "cargo"
    /\ \E r \in Res :
         /\ Invoke("cargo", CargoArgs(final_flags), "<build_dir>", r)
         /\ LastCommand(r, "Cargo command failed")
    /\ UNCHANGED <<inputs, plans, idx, build_system, final_flags, build_file, prompted, input,
                   pager, bin_path, localbin>>

\* "meson" => meson setup <final_flags> <build_dir>/build
RunMesonSetup ==
    /\ pc = "build" /\ build_system = "meson"
    /\ \E r \in Res :
         /\ Invoke("meson", MesonSetupArgs(final_flags), "<build_dir>", r)
         /\ IF MesonNeedsFallback(r) THEN Goto("meson_fallback") ELSE Goto("meson_ninja")
    /\ UNCHANGED <<inputs, plans, idx, ws, build_system, final_flags, build_file, prompted, input,
                   pager, build_status, bin_path, localbin>>

\* "meson" => ... meson <build_dir>/build when the setup did not succeed
RunMesonFallback ==
    /\ pc = "meson_fallback"
    /\ \E r \in Res :
         /\ Invoke("meson", MesonFallbackArgs(final_flags), "<build_dir>", r)
         /\ IF r = "err" THEN Panic("Meson setup failed") ELSE Goto("meson_ninja")
    /\ UNCHANGED <<inputs, plans, idx, ws, build_system, final_flags, build_file, prompted, input,
                   pager, build_status, bin_path, localbin>>

\* "meson" => ... ninja -C <build_dir>/build
RunMesonNinja ==
    /\ pc = "meson_ninja"
    /\ \E r \in Res :
         /\ Invoke("ninja", MesonNinjaArgs(final_flags), ".", r)
         /\ LastCommand(r, "Ninja build failed")
    /\ UNCHANGED <<inputs, plans, idx, build_system, final_flags, build_file, prompted, input,
                   pager, bin_path, localbin>>

\* "ninja" => ninja <final_flags>
RunNinja ==
    /\ pc = "build" /\ build_system = "ninja"
    /\ \E r \in Res :
         /\ Invoke("ninja", NinjaArgs(final_flags), "<build_dir>", r)
         /\ LastCommand(r, "Ninja build failed")
    /\ UNCHANGED <<inputs, plans, idx, build_system, final_flags, build_file, prompted, input,
                   pager, bin_path, localbin>>

\* "nimble" => nimble build <final_flags>
RunNimble ==
    /\ pc = "build" /\ build_system = "nimble"
    /\ \E r \in Res :
         /\ Invoke("nimble", NimbleArgs(final_flags), "<build_dir>", r)
         /\ LastCommand(r, "Nimble command failed")
    /\ UNCHANGED <<inputs, plans, idx, build_system, final_flags, build_file, prompted, input,
                   pager, bin_path, localbin>>

\* "stack" => stack install <final_flags> --local-bin-path <build_dir>/bin
RunStack ==
    /\ pc = "build" /\ build_system = "stack"
    /\ \E r \in Res :
         /\ Invoke("stack", StackArgs(final_flags), "<build_dir>", r)
         /\ LastCommand(r, "Stack command failed")
    /\ UNCHANGED <<inputs, plans, idx, build_system, final_flags, build_file, prompted, input,
                   pager, bin_path, localbin>>

\* Locate with every exit status of the build taken for a success
AnyExitStatus(status) == TRUE

\* ExitStatus::success
success(status) == status = "ok"

\* if !build_status.success() { "Build failed" }; find_binary_path
Locate ==
    /\ pc = "built"
    /\ IF ~success(build_status)
       THEN /\ Return("BuildFailed")
            /\ bin_path' = bin_path
       ELSE \E bp \in find_binary_path(build_dir, package, build_system) :
              /\ bin_path' = bp
              /\ IF IsSome(bp) THEN Goto("copy") ELSE Return("BinaryNotFound")
    /\ UNCHANGED <<inputs, plans, idx, ws, build_system, final_flags, build_file, prompted, input,
                   pager, cmds, build_status, localbin>>

\* CopyInto leaving the copied file alone in the directory
CopyReplacesDirectory(bin, name, content) == {[name |-> name, content |-> content]}

\* fs::copy(&bin_path, dest.join(bin_name)) into $HOME/.local/bin
CopyInto(bin, name, content) ==
    {f \in bin : f.name # name} \cup {[name |-> name, content |-> content]}

Copy ==
    /\ pc = "copy"
    /\ \E r \in {"ok", "nohome", "err"} :
         CASE r = "ok" ->
                /\ localbin' = CopyInto(localbin, Last(Unwrap(bin_path)),
                                        [run |-> idx, path |-> Unwrap(bin_path)])
                /\ Return("Installed")
           [] r = "nohome" ->
                /\ localbin' = localbin
                /\ Panic("HOME environment variable not set")
           [] r = "err" ->
                /\ localbin' = localbin
                /\ Panic("Failed to copy binary to local directory")
    /\ UNCHANGED <<inputs, plans, idx, ws, locals>>

\* install_with_makepkg, when /etc/arch-release exists: purge, clone, show
\* the PKGBUILD and ask, makepkg -si.
InstallWithMakepkg ==
    /\ pc = "install" /\ idx < Len(packages) /\ arch
    /\ idx' = idx + 1
    /\ build_system' = "" /\ final_flags' = <<>> /\ build_file' = None
    /\ build_status' = "" /\ bin_path' = None
    /\ LET p == packages[idx + 1]
           Makepkg(r) ==
               Cmd("makepkg",
                   <<"-si">> \o (IF yes THEN <<"--noconfirm">> ELSE <<>>) \o flags,
                   "<build_dir>", r)
       IN \E rm \in {"ok", "err"}, clone \in Res :
            IF ws[p].present /\ rm = "err"
            THEN /\ pc' = "panicked" /\ panic' = "Failed to clean previous build"
                 /\ outcome' = "" /\ ws' = ws
                 /\ prompted' = FALSE /\ input' = <<>> /\ pager' = <<>> /\ cmds' = <<>>
            ELSE IF clone # "ok"
            THEN /\ ws' = [ws EXCEPT ![p] = remove_dir_all(@)]
                 /\ prompted' = FALSE /\ input' = <<>> /\ pager' = <<>> /\ cmds' = <<>>
                 /\ IF clone = "err"
                    THEN pc' = "panicked" /\ panic' = "Git command failed" /\ outcome' = ""
                    ELSE pc' = "install" /\ panic' = panic /\ outcome' = "CloneFailed"
            ELSE /\ ws' = [ws EXCEPT ![p] = remote[p]]
                 /\ \E asked \in (IF yes THEN {FALSE} ELSE BOOLEAN) :
                    \E less \in (IF asked THEN Res ELSE {"ok"}) :
                    \E line \in (IF asked THEN UserInputs ELSE {<<>>}) :
                      /\ prompted' = asked
                      /\ input' = <<>>
                      /\ pager' = IF ~asked THEN <<>>
                                  ELSE IF less = "ok" THEN <<"less">> ELSE <<"less", "cat">>
                      /\ IF asked /\ Declined(line)
                         THEN /\ cmds' = <<>>
                              /\ pc' = "install" /\ panic' = panic /\ outcome' = "Cancelled"
                         ELSE \E r \in Res :
                              /\ cmds' = <<Makepkg(r)>>
                              /\ IF r = "err"
                                 THEN pc' = "panicked" /\ panic' = "makepkg command failed"
                                      /\ outcome' = ""
                                 ELSE pc' = "install" /\ panic' = panic
                                      /\ outcome' = IF r = "ok" THEN "MakepkgFinished"
                                                    ELSE "MakepkgFailed"
    /\ UNCHANGED <<inputs, plans, localbin>>

Next ==
    \/ Begin
    \/ Clone
    \/ Detect
    \/ Announce
    \/ Gate
    \/ Answer
    \/ RunMake
    \/ RunConfigure
    \/ RunAutotoolsMake
    \/ RunCMake
    \/ RunCMakeRetry
    \/ RunCargo
    \/ RunMesonSetup
    \/ RunMesonFallback
    \/ RunMesonNinja
    \/ RunNinja
    \/ RunNimble
    \/ RunStack
    \/ Locate
    \/ Copy
    \/ InstallWithMakepkg

\* ------------------------------------------------------------------ inputs
SeqsUpTo(S, n) == UNION {[1..k -> S] : k \in 0..n}

Range(f) == {f[i] : i \in DOMAIN f}

\* batches of install: "foo" first, then any packages
Batches == {b \in UNION {[1..n -> Packages] : n \in 1..MaxBatch} : b[1] = "foo"}

CallerFlags == SeqsUpTo({"--verbose", "-j2"}, MaxFlags)

\* Cargo.toml contents
CargoTomls ==
    {CargoUnreadable, CargoUnparseable, CargoTable(<<>>, None),
     CargoTable(<<>>, Some("foo-rs")), CargoTable(<<None>>, Some("foo-rs")),
     CargoTable(<<None, Some("foo-cli")>>, Some("foo-rs")),
     CargoTable(<<Some("foo-cli"), Some("foo-bin")>>, None)}
PlainCargo == CargoTable(<<>>, Some("foo"))

\* aurora.json contents
ManifestFlagValues ==
    {JNull, JStr("--offline")}
    \cup {JArr(a) : a \in SeqsUpTo({JStr("--offline"), JStr("--frozen"), JNum}, MaxFlags)}
ManifestKindValues ==
    {JNull, JNum, JStr("bazel")} \cup {JStr(k) : k \in KindSet}

\* every set of marker files, without aurora.json
MarkerTrees ==
    {Tree(f, NoJson, PlainCargo) : f \in SUBSET MarkerFiles}
    \cup {Tree({"README.md"} \cup f, NoJson, PlainCargo) :
            f \in {{}} \cup {{m} : m \in MarkerFiles}}

\* every aurora.json build_system value over every set of marker files
KindMarkers ==
    {"Makefile", "configure", "Cargo.toml", "CMakeLists.txt", "meson.build",
     "build.ninja", "*.nimble", "stack.yaml"}
ManifestTrees ==
    {Tree(f, j, PlainCargo) :
       f \in SUBSET KindMarkers,
       j \in {JsonDoc(k, JNull) : k \in ManifestKindValues}
             \cup {UnreadableJson, MalformedJson}}

\* one marker file at most, with every aurora.json flags value
FlagTrees ==
    {Tree(f, j, PlainCargo) :
       f \in {{}} \cup {{m} : m \in MarkerFiles},
       j \in {NoJson}}
    \cup {Tree({}, JsonDoc(k, fl), PlainCargo) :
            k \in {JNull, JStr("cargo"), JStr("autotools")}, fl \in ManifestFlagValues}

\* every Cargo.toml of the model, and one tree of each other kind
CargoTrees ==
    {Tree({"Cargo.toml"}, NoJson, c) : c \in CargoTomls}
    \cup {Tree({}, JsonDoc(JStr("cargo"), JNull), CargoUnreadable)}
    \cup {Tree({m}, NoJson, PlainCargo) : m \in MarkerFiles}

\* one marker file at most, without aurora.json and with an aurora.json
\* naming each kind
GateTrees ==
    {Tree(f, j, PlainCargo) :
       f \in {{}} \cup {{m} : m \in MarkerFiles},
       j \in {NoJson} \cup {JsonDoc(JStr(k), JNull) : k \in KindSet}}

\* a tree for every report of a run
BatchTrees ==
    {Tree({"Makefile", "Cargo.toml"}, NoJson, PlainCargo),
     Tree({}, NoJson, PlainCargo),
     Tree({"configure"}, NoJson, PlainCargo),
     Tree({"CMakeLists.txt"}, NoJson, PlainCargo),
     Tree({"meson.build"}, NoJson, PlainCargo),
     Tree({"build.ninja"}, NoJson, PlainCargo),
     Tree({"*.nimble"}, NoJson, PlainCargo),
     Tree({"stack.yaml"}, NoJson, PlainCargo),
     Tree({"Makefile"}, MalformedJson, PlainCargo),
     Tree({"Makefile"}, JsonDoc(JStr("bazel"), JNull), PlainCargo),
     Tree({"Cargo.toml"}, JsonDoc(JStr("cargo"), JArr(<<JStr("--offline")>>)), PlainCargo)}

\* the trees of the packages after the first of a batch
OtherTrees ==
    {Tree({"Makefile", "Cargo.toml"}, NoJson, PlainCargo),
     Tree({"CMakeLists.txt"}, NoJson, PlainCargo),
     Tree({}, NoJson, PlainCargo)}

NoBuilds == [p \in Packages |-> AbsentDir]

InitWith(batches, callerFlags, trees) ==
    /\ packages \in batches
    /\ flags \in callerFlags
    /\ yes \in BOOLEAN
    /\ arch \in BOOLEAN
    /\ remote \in [Range(packages) -> trees]
    /\ idx = 0
    /\ pc = "install"
    /\ ws = NoBuilds
    /\ build_system = "" /\ final_flags = <<>> /\ build_file = None
    /\ prompted = FALSE /\ input = <<>> /\ pager = <<>> /\ cmds = <<>>
    /\ build_status = "" /\ bin_path = None
    /\ outcome = ""
    /\ panic = ""
    /\ plans = <<>>
    /\ localbin = {}

\* a batch of packages, "foo" with every tree of BatchTrees and the other
\* packages with one of OtherTrees
Init ==
    /\ InitWith(Batches, {<<"--verbose">>}, BatchTrees)
    /\ \A p \in Range(packages) \ {"foo"} : remote[p] \in OtherTrees
Spec == Init /\ [][Next]_vars

\* one package whose tree has no aurora.json, over every set of marker files
InitMarkers == InitWith({<<"foo">>}, {<<>>}, MarkerTrees)
SpecMarkers == InitMarkers /\ [][Next]_vars

\* one package whose tree has an aurora.json, over every set of marker files
InitManifest == InitWith({<<"foo">>}, {<<>>}, ManifestTrees)
SpecManifest == InitManifest /\ [][Next]_vars

\* one package, over the flags of aurora.json and of the caller
InitFlags == InitWith({<<"foo">>}, CallerFlags, FlagTrees)
SpecFlags == InitFlags /\ [][Next]_vars

\* one package, over the Cargo.toml contents
InitCargo == InitWith({<<"foo">>}, {<<>>}, CargoTrees)
SpecCargo == InitCargo /\ [][Next]_vars

\* one package, over the build files the gate can show
InitGate == InitWith({<<"foo">>}, {<<>>}, GateTrees)
SpecGate == InitGate /\ [][Next]_vars

\* ------------------------------------------------------------------ claims
\* The detection of the current package's run has been done.
Detected ==
    /\ idx >= 1 /\ ~arch
    /\ pc \notin {"clone", "detect"}
    /\ outcome # "CloneFailed"
    /\ panic \notin {"Failed to clean previous build", "Git command failed"}

\* The marker files of a kind; a Nimble package file is any *.nimble.
MarkersOf(k) ==
    CASE k = "make" -> {"Makefile", "makefile", "GNUMakefile"}
      [] k = "autotools" -> {"configure"}
      [] k = "cargo" -> {"Cargo.toml"}
      [] k = "cmake" -> {"CMakeLists.txt"}
      [] k = "meson" -> {"meson.build"}
      [] k = "ninja" -> {"build.ninja"}
      [] k = "nimble" -> {"*.nimble", "foo.nimble"}
      [] k = "stack" -> {"stack.yaml"}

KindPresent(dir, k) == dir.files \cap MarkersOf(k) # {}

\* The first kind, in the order of Kinds, with a marker file in dir.
FirstKind(dir) ==
    Kinds[CHOOSE i \in 1..Len(Kinds) :
            /\ KindPresent(dir, Kinds[i])
            /\ \A j \in 1..(i - 1) : ~KindPresent(dir, Kinds[j])]

\* The program a kind's recipe starts with.
FirstProgram(k) == IF k = "autotools" THEN "./configure" ELSE k

\* C1: without aurora.json, whatever set of marker files the tree holds, the
\* build system chosen is the first of make, autotools, cargo, cmake, meson,
\* ninja, nimble, stack with a marker file in the tree, and the build starts
\* with that kind's program (a Makefile beside a Cargo.toml is built by make).
C1_FirstMarkerWins ==
    (/\ Detected
     /\ build_dir.json.state = "absent"
     /\ \E k \in KindSet : KindPresent(build_dir, k))
    => /\ build_system = FirstKind(build_dir)
       /\ cmds # <<>> => cmds[1].prog = FirstProgram(FirstKind(build_dir))

\* The same order over the trees without a Nimble package file: there the
\* chain of the code chooses as C1 says.
MarkerOrderWithoutNimbleFile ==
    (idx >= 1 /\ "foo.nimble" \notin build_dir.files) => C1_FirstMarkerWins

MakefileBesideCargoToml ==
    /\ Detected
    /\ build_dir.json.state = "absent"
    /\ {"Makefile", "Cargo.toml"} \subseteq build_dir.files
    /\ build_system = "make"
    /\ cmds # <<>> /\ cmds[1].prog = "make"

\* The kind a marker file stands for; a Nimble package file is any *.nimble.
KindOfMarkerFile(f) ==
    CASE f \in {"Makefile", "makefile", "GNUMakefile"} -> "make"
      [] f = "configure" -> "autotools"
      [] f = "Cargo.toml" -> "cargo"
      [] f = "CMakeLists.txt" -> "cmake"
      [] f = "meson.build" -> "meson"
      [] f = "build.ninja" -> "ninja"
      [] f \in {"*.nimble", "foo.nimble"} -> "nimble"
      [] f = "stack.yaml" -> "stack"

\* C3: without aurora.json, a tree with exactly one marker file is detected
\* as that marker's kind; foo.nimble is a marker of nimble.
C3_SingleMarkerKind ==
    (/\ Detected
     /\ build_dir.json.state = "absent"
     /\ Cardinality(build_dir.files \cap MarkerFiles) = 1)
    => \A f \in build_dir.files \cap MarkerFiles : build_system = KindOfMarkerFile(f)

\* aurora.json gives no build system to use: there is none, or the string
\* it names is not the name of a kind.
NoUsableManifest(dir) ==
    \/ dir.json.state = "absent"
    \/ /\ dir.json.state = "json"
       /\ dir.json.build_system.t = "str"
       /\ dir.json.build_system.s \notin KindSet

\* C6: a run whose tree holds no marker file and no usable aurora.json, once
\* past its detection, has reported that no build system was found and
\* returned: no build command was run, no binary was located, nothing was
\* copied.
C6_NoBuildSystemFound ==
    (/\ Detected
     /\ NoUsableManifest(build_dir)
     /\ build_dir.files \cap MarkerFiles = {}
     /\ pc # "announce")
    => /\ pc = "install"
       /\ outcome = "NoBuildSystemFound"
       /\ cmds = <<>> /\ build_status = ""
       /\ bin_path = None
       /\ localbin = {}

\* The same for the trees without aurora.json: there the run ends as C6 says.
NoManifestNoMarkers ==
    (idx >= 1 /\ build_dir.json.state = "absent") => C6_NoBuildSystemFound

NoManifestNoMarkersReached ==
    /\ Detected
    /\ build_dir.json.state = "absent"
    /\ build_dir.files = {"README.md"}
    /\ outcome = "NoBuildSystemFound"

\* aurora.json parses and its build_system is the name of a kind.
NamesKind(dir) ==
    /\ dir.json.state = "json"
    /\ dir.json.build_system.t = "str"
    /\ dir.json.build_system.s \in KindSet

\* find_binary_path has been called in this run.
Located == build_status = "ok" /\ pc # "built"

\* C2: when aurora.json names one of the eight kinds, that kind is the build
\* system of the run whatever marker files the tree holds: the build starts
\* with that kind's program and the binary is looked for where that kind
\* puts it.
C2_ManifestKindWins ==
    (Detected /\ NamesKind(build_dir))
    => /\ build_system = build_dir.json.build_system.s
       /\ cmds # <<>> => cmds[1].prog = FirstProgram(build_dir.json.build_system.s)
       /\ Located => bin_path \in find_binary_path(build_dir, package,
                                                   build_dir.json.build_system.s)

C2_Witness ==
    /\ Detected /\ NamesKind(build_dir)
    /\ build_dir.json.build_system.s = "cargo"
    /\ {"Makefile", "Cargo.toml"} \subseteq build_dir.files
    /\ build_system = "cargo"
    /\ cmds # <<>> /\ cmds[1].prog = "cargo"
    /\ pc = "copy" /\ bin_path = Some(<<"target", "release", "foo">>)

\* The reports of a run that ended at one of its stages, panics included.
StageFailed ==
    /\ idx >= 1 /\ ~arch
    /\ \/ outcome \in {"CloneFailed", "NoBuildSystemFound", "ConfigureFailed",
                       "BuildFailed", "BinaryNotFound"}
       \/ panic \in {"Invalid aurora.json", "internal error: entered unreachable code",
                     "Failed to copy binary to local directory"}

\* C4: a run that failed at a stage (clone, aurora.json malformed or naming
\* no kind, no build system, configure, build, locate, copy) ends alone:
\* while packages of the batch are left, install goes on to the next one.
C4_BatchContinues ==
    (StageFailed /\ idx < Len(packages)) => pc = "install"

\* C5: the build system of a run is one of the eight kinds from the moment it
\* is chosen, and a run whose detection chose none (aurora.json, if any,
\* parsed) ended with "No build system found".
C5_KindInEnumeration ==
    /\ build_system # "" => build_system \in KindSet
    /\ (Detected /\ ParsePanic(build_dir.json) = "" /\ build_system = "")
       => outcome = "NoBuildSystemFound"

\* The strings of a JSON array, in the array's order.
StringsOf(a) ==
    LET strs == SelectSeq(a, LAMBDA v : v.t = "str")
    IN [i \in 1..Len(strs) |-> strs[i].s]

\* The flags array of aurora.json (empty without one), then the caller's flags.
ExpectedFlags(dir) ==
    (IF dir.json.state = "json" /\ dir.json.flags.t = "arr"
     THEN StringsOf(dir.json.flags.a) ELSE <<>>) \o flags

\* The arguments of a kind's first command between its fixed leading and
\* trailing arguments.
LeadingArgs(k) ==
    CASE k = "make" -> 2 [] k = "cargo" -> 2 [] k = "cmake" -> 1 [] k = "meson" -> 1
      [] k = "nimble" -> 1 [] k = "stack" -> 1 [] OTHER -> 0
TrailingArgs(k) ==
    CASE k = "cargo" -> 4 [] k = "cmake" -> 1 [] k = "meson" -> 1 [] k = "stack" -> 2
      [] OTHER -> 0
FlagsPassed(cmd, k) ==
    SubSeq(cmd.args, LeadingArgs(k) + 1, Len(cmd.args) - TrailingArgs(k))

\* C7: the flags of the build step are the flags array of aurora.json, in
\* its order (none without aurora.json), followed by the caller's flags in
\* their order.
C7_FinalFlags ==
    (Detected /\ build_system \in KindSet)
    => /\ final_flags = ExpectedFlags(build_dir)
       /\ cmds # <<>> => FlagsPassed(cmds[1], build_system) = ExpectedFlags(build_dir)

C7_Witness ==
    /\ Detected
    /\ build_dir.json = JsonDoc(JStr("cargo"), JArr(<<JStr("--offline")>>))
    /\ flags = <<"--verbose">>
    /\ cmds # <<>>
    /\ cmds[1].prog = "cargo"
    /\ FlagsPassed(cmds[1], "cargo") = <<"--offline", "--verbose">>

\* C8: a meson run that is past its build commands has run meson setup with
\* the flags once, the plain meson form once exactly when the setup did not
\* succeed, then ninja -C build once, and its build status is success
\* exactly when ninja exited with success.
C8_MesonRecipe ==
    (/\ Detected /\ build_system = "meson" /\ cmds # <<>>
     /\ pc \notin {"meson_fallback", "meson_ninja"})
    => /\ cmds[1].prog = "meson"
       /\ cmds[1].args = <<"setup">> \o ExpectedFlags(build_dir) \o <<"<build_dir>/build">>
       /\ Len(cmds) = (IF cmds[1].res = "ok" THEN 2 ELSE 3)
       /\ cmds[1].res # "ok"
          => cmds[2].prog = "meson" /\ cmds[2].args = <<"<build_dir>/build">>
       /\ cmds[Len(cmds)].prog = "ninja"
       /\ cmds[Len(cmds)].args = <<"-C", "<build_dir>/build">>
       /\ build_status = "ok" <=> cmds[Len(cmds)].res = "ok"

\* C9: a cmake run starts with cmake -DCMAKE_BUILD_TYPE=Release <flags> ..
\* in build/; after a success there is no second cmake; after anything else
\* cmake <flags> .. is run once more, and its exit status is the build
\* status (when it cannot be started the process panics).
C9_CMakeRecipe ==
    (Detected /\ build_system = "cmake" /\ cmds # <<>>)
    => /\ cmds[1].prog = "cmake" /\ cmds[1].cwd = "<build_dir>/build"
       /\ cmds[1].args = <<"-DCMAKE_BUILD_TYPE=Release">> \o ExpectedFlags(build_dir)
                           \o <<"..">>
       /\ cmds[1].res = "ok" => Len(cmds) = 1 /\ build_status = "ok"
       /\ (cmds[1].res # "ok" /\ pc = "cmake_retry") => Len(cmds) = 1
       /\ (cmds[1].res # "ok" /\ pc # "cmake_retry")
          => /\ Len(cmds) = 2
             /\ cmds[2].prog = "cmake" /\ cmds[2].cwd = "<build_dir>/build"
             /\ cmds[2].args = ExpectedFlags(build_dir) \o <<"..">>
             /\ IF cmds[2].res = "err"
                THEN pc = "panicked" /\ build_status = ""
                ELSE build_status = cmds[2].res

C9_Witness ==
    /\ Detected /\ build_system = "cmake"
    /\ flags # <<>>
    /\ Len(cmds) = 2
    /\ cmds[1].res = "fail" /\ cmds[2].res = "ok"
    /\ build_status = "ok"

\* C10: an autotools run starts with ./configure <flags>; when configure
\* does not succeed make is not run, nothing is located or copied and the
\* report is a configure failure, not "Build failed"; when it succeeds
\* make is run once without flags, and a failing make is "Build failed".
C10_AutotoolsRecipe ==
    (Detected /\ build_system = "autotools" /\ cmds # <<>>)
    => /\ cmds[1].prog = "./configure"
       /\ cmds[1].args = ExpectedFlags(build_dir)
       /\ cmds[1].res # "ok"
          => /\ Len(cmds) = 1
             /\ build_status = "" /\ bin_path = None /\ localbin = {}
             /\ outcome # "BuildFailed"
             /\ IF cmds[1].res = "fail"
                THEN pc = "install" /\ outcome = "ConfigureFailed"
                ELSE pc = "panicked" /\ panic = "Configure command failed"
       /\ (cmds[1].res = "ok" /\ pc = "autotools_make") => Len(cmds) = 1
       /\ (cmds[1].res = "ok" /\ pc # "autotools_make")
          => /\ Len(cmds) = 2
             /\ cmds[2].prog = "make" /\ cmds[2].args = <<>>
             /\ (cmds[2].res = "fail" /\ pc = "install") => outcome = "BuildFailed"

C10_Witness ==
    /\ Detected /\ build_system = "autotools"
    /\ flags # <<>>
    /\ Len(cmds) = 1 /\ cmds[1].res = "fail"
    /\ pc = "install" /\ outcome = "ConfigureFailed"

\* The name of the binary of a Cargo package: the first [[bin]] name that is
\* a string, else package.name, else the package given on the command line.
CargoBinaryName(dir, pkg) ==
    IF "Cargo.toml" \in dir.files /\ dir.cargo.state = "table"
    THEN LET named == {i \in DOMAIN dir.cargo.bin : dir.cargo.bin[i] # None}
         IN IF named # {}
            THEN dir.cargo.bin[CHOOSE i \in named : \A j \in named : i <= j][1]
            ELSE IF dir.cargo.package # None THEN dir.cargo.package[1] ELSE pkg
    ELSE pkg

\* The files of dir at the place where kind k leaves the binary of pkg.
ExpectedArtifacts(dir, pkg, k) ==
    CASE k \in {"make", "autotools", "ninja", "nimble"} -> dir.out \cap {<<pkg>>}
      [] k = "cmake" -> dir.out \cap {<<"build", pkg>>}
      [] k = "meson" ->
           {p \in dir.out : Len(p) >= 2 /\ p[1] = "build" /\ p[Len(p)] = pkg}
      [] k = "stack" ->
           {p \in dir.out : Len(p) >= 2 /\ p[1] = "bin" /\ p[Len(p)] = pkg}
      [] k = "cargo" ->
           dir.out \cap {<<"target", "release", CargoBinaryName(dir, pkg)>>,
                         <<"target", "debug", CargoBinaryName(dir, pkg)>>}

\* C11: a run whose build exited with success and left no file of the
\* package's name where its kind puts the binary reports that the binary
\* was not found, not that the build failed, and copies nothing.
C11_BinaryNotFound ==
    (/\ Detected /\ build_system \in KindSet /\ Located
     /\ ExpectedArtifacts(build_dir, package, build_system) = {})
    => /\ pc = "install"
       /\ outcome = "BinaryNotFound"
       /\ bin_path = None
       /\ localbin = {}

C11_Witness ==
    /\ Detected /\ build_system = "cmake" /\ Located
    /\ cmds[Len(cmds)].res = "ok"
    /\ build_dir.out = {<<"foo">>}
    /\ pc = "install" /\ outcome = "BinaryNotFound"
    /\ localbin = {}

\* The places of a run between its clone and the last command of its build.
BeforeLastCommand ==
    {"detect", "announce", "gate", "asked", "build", "autotools_make",
     "cmake_retry", "meson_fallback", "meson_ninja"}

\* C12: whatever the earlier runs of the batch left, the package's directory
\* does not exist when the clone starts; detection sees the tree just
\* fetched and the locator sees that tree and the files of this run's build.
C12_FreshBuildDir ==
    /\ pc = "clone" => ~ws[package].present
    /\ (idx >= 1 /\ ~arch /\ pc \in BeforeLastCommand) => build_dir = remote[package]
    /\ (idx >= 1 /\ ~arch /\ pc \in {"built", "copy"})
       => /\ [build_dir EXCEPT !.out = {}] = remote[package]
          /\ build_dir.out \in Outs(package)

C12_Witness ==
    /\ packages = <<"foo", "foo">> /\ idx = 2
    /\ localbin # {}
    /\ pc = "clone"
    /\ ~ws["foo"].present

\* The answer typed is n or N, whatever blanks and line end surround it.
AnswerIsN(line) ==
    SelectSeq(line, LAMBDA c : ~IsWhitespace(c)) \in {<<"n">>, <<"N">>}

\* One step of a run, as C13 reads it.
GateStep ==
    /\ yes => ~prompted'
    /\ pc = "asked"
       => /\ ~yes /\ prompted
          /\ IF AnswerIsN(input)
             THEN pc' = "install" /\ outcome' = "Cancelled"
             ELSE pc' = "build" /\ outcome' = ""
    /\ outcome' = "Cancelled"
       => /\ pc' = "install"
          /\ cmds' = <<>> /\ build_status' = "" /\ bin_path' = None
          /\ localbin' = localbin

\* C13: with yes the prompt is never shown; without it an answer of n or N
\* ends the run as cancelled, with no build command, no binary located and
\* nothing copied, and install goes on to the next package; every other
\* answer goes on to the build.
C13_GateDeclined == [][GateStep]_vars

C13_Witness ==
    /\ ~yes /\ ~arch /\ prompted
    /\ Len(packages) = 2 /\ idx = 1
    /\ outcome = "Cancelled" /\ cmds = <<>> /\ bin_path = None
    /\ ENABLED Begin

\* C14: a run whose aurora.json is not JSON stops at its detection: no
\* build system is taken from the marker files, no build command is run,
\* nothing is located or copied.
C14_MalformedManifestStops ==
    (Detected /\ build_dir.json.state = "malformed")
    => /\ pc = "panicked" /\ panic = "Invalid aurora.json"
       /\ build_system = "" /\ plans = <<>>
       /\ ~prompted /\ cmds = <<>> /\ build_status = ""
       /\ bin_path = None /\ localbin = {}

C14_Witness ==
    /\ Detected /\ build_dir.json.state = "malformed"
    /\ {"Makefile", "Cargo.toml"} \subseteq build_dir.files
    /\ pc = "panicked" /\ panic = "Invalid aurora.json"
    /\ build_system = "" /\ cmds = <<>>

C16_CargoBinary ==
    (Detected /\ build_system = "cargo" /\ Located)
    => LET name == CargoBinaryName(build_dir, package)
       IN /\ bin_path =
               IF <<"target", "release", name>> \in build_dir.out
               THEN <<<<"target", "release", name>>>>
               ELSE IF <<"target", "debug", name>> \in build_dir.out
               THEN <<<<"target", "debug", name>>>>
               ELSE <<>>
          /\ bin_path = <<>> => outcome = "BinaryNotFound"

C16_Witness ==
    /\ Detected /\ build_system = "cargo" /\ Located
    /\ build_dir.cargo = CargoTable(<<None, Some("foo-cli")>>, Some("foo-rs"))
    /\ build_dir.out = {<<"target", "release", "foo-cli">>, <<"target", "debug", "foo-cli">>}
    /\ bin_path = Some(<<"target", "release", "foo-cli">>)

\* The step that ends a run with "Installed", as C17 reads it: afterwards
\* the user's directory holds one file of the artifact's file name, the one
\* this run located, and its other files are those it held before.
InstalledStep ==
    outcome' = "Installed"
    => /\ pc = "copy" /\ bin_path # <<>>
       /\ LET artifact == bin_path[1]
              name == artifact[Len(artifact)]
          IN /\ {f \in localbin' : f.name = name}
                  = {[name |-> name, content |-> [run |-> idx, path |-> artifact]]}
             /\ {f \in localbin' : f.name # name} = {f \in localbin : f.name # name}

\* C17: a successful install copies the located artifact to
\* ~/.local/bin/<its file name>, in place of any file of that name, and
\* leaves every other file of the directory as it was.
C17_CopyFrame == [][InstalledStep]_vars

C17_Witness ==
    /\ packages = <<"foo", "bar">> /\ idx = 2
    /\ pc = "install" /\ outcome = "Installed"
    /\ bin_path = Some(<<"build", "bar">>)
    /\ localbin = {[name |-> "foo", content |-> [run |-> 1, path |-> <<"foo">>]],
                   [name |-> "bar", content |-> [run |-> 2, path |-> <<"build", "bar">>]]}

\* The stages of a run in their order: purge (the step into "clone"), clone,
\* detect, confirm, build, locate, copy.
StageRank(place) ==
    CASE place = "install" -> 0
      [] place = "clone" -> 1
      [] place \in {"detect", "announce"} -> 2
      [] place \in {"gate", "asked"} -> 3
      [] place \in {"build", "autotools_make", "cmake_retry", "meson_fallback",
                    "meson_ninja"} -> 4
      [] place = "built" -> 5
      [] place = "copy" -> 6

\* One step of a run, as C18 reads it.
PipelineStep ==
    /\ pc' \notin {"install", "panicked"}
       => /\ StageRank(pc') >= StageRank(pc)
          /\ StageRank(pc') <= StageRank(pc) + 1
          /\ pc' # pc
    /\ localbin' # localbin
       => /\ pc = "copy" /\ pc' = "install" /\ outcome' = "Installed"
          /\ build_dir.present
          /\ build_system \in KindSet
          /\ outcome = ""
          /\ cmds # <<>> /\ cmds[Len(cmds)].res = "ok" /\ build_status = "ok"
          /\ bin_path # <<>> /\ bin_path[1] \in build_dir.out

\* C18: the stages of a run follow one another in the order purge, clone,
\* detect, confirm, build, locate, copy; the user's directory
\* changes only in the copy of a run whose clone succeeded, that chose a
\* build system, was not declined, whose last build command exited with
\* success and whose locator returned a path.
C18_StagesInOrder == [][PipelineStep]_vars

C18_Witness ==
    /\ ~yes /\ prompted
    /\ pc = "install" /\ outcome = "Installed"
    /\ build_system = "meson" /\ Len(cmds) = 3
    /\ build_status = "ok"
    /\ bin_path = Some(<<"build", "sub", "foo">>)
    /\ localbin = {[name |-> "foo", content |-> [run |-> 1, path |-> <<"build", "sub", "foo">>]]}

\* C19: when aurora.json parses and its build_system is not a string, the
\* build system is make whatever marker files the tree holds, and make is
\* run with -f Makefile when the tree holds none of the three makefiles.
C19_ManifestDefaultsToMake ==
    (/\ Detected
     /\ build_dir.json.state = "json"
     /\ build_dir.json.build_system.t # "str")
    => /\ build_system = "make"
       /\ cmds # <<>>
          => /\ cmds[1].prog = "make"
             /\ build_dir.files \cap {"Makefile", "makefile", "GNUMakefile"} = {}
                => SubSeq(cmds[1].args, 1, 2) = <<"-f", "Makefile">>

C19_Witness ==
    /\ Detected
    /\ build_dir.json = JsonDoc(JNull, JNull)
    /\ build_dir.files = {"Cargo.toml", "CMakeLists.txt"}
    /\ build_system = "make"
    /\ cmds # <<>> /\ cmds[1].prog = "make"
    /\ cmds[1].args = <<"-f", "Makefile">>

\* C20: without yes, a build command has been run without the prompt only
\* in a run whose build system was named by aurora.json and whose tree
\* holds no build file of that kind (for nimble, no *.nimble file); a run
\* whose build system came from the marker files was always shown the prompt.
C20_PromptBeforeBuild ==
    (Detected /\ ~yes /\ cmds # <<>> /\ ~prompted)
    => /\ build_dir.json.state # "absent"
       /\ ~KindPresent(build_dir, build_system)

\* The same over the trees without a Nimble package file: there the gate
\* is passed without the prompt only as C20 says.
PromptBeforeBuildWithoutNimbleFile ==
    (idx >= 1 /\ "foo.nimble" \notin build_dir.files) => C20_PromptBeforeBuild

PromptedOnMarkerPath ==
    /\ Detected /\ ~yes /\ cmds # <<>>
    /\ build_dir.json.state = "absent"
    /\ build_dir.files = {"*.nimble"}
    /\ prompted

UnpromptedOnManifestPath ==
    /\ Detected /\ ~yes /\ cmds # <<>>
    /\ build_dir.json = JsonDoc(JStr("cmake"), JNull)
    /\ build_dir.files = {"Makefile"}
    /\ ~prompted
=============================================================================
